---------------------------- MODULE Spec2Model ----------------------------
(***************************************************************************)
(* A model of the UNION cross-chain launcher (src/index.js): the menu      *)
(* controller, the script dispatcher with its child-process handlers, and  *)
(* the update checker with its file-sync pass.                             *)
(*                                                                         *)
(* One action is one turn of the Node event loop: a callback runs from the *)
(* event that resumes it up to the next point where the code waits for an  *)
(* external event (a line of input, a timer, a file-system or network      *)
(* completion, a child-process event).                                     *)
(***************************************************************************)
EXTENDS Integers, Sequences, FiniteSets, Bags, TLC

\* ------------------------------------------------------------------ bounds

\* Entries of a remote file listing.
MaxFiles == 2

\* Largest component of a version triple of the remote feed.
MaxPart == 1

\* Entries of the remote version feed.
MaxVers == 2

VARIABLES
    question,   \* rl's pending question callback (readline keeps one)
    lost,       \* questions asked while one was pending: never answered
    tasks,      \* bag of the other pending continuations: timers, fs and
                \* network requests in flight, child processes with handlers
    disk,       \* names of the local files written by downloadFile
    status,     \* "running", or "exit0" after process.exit(0)
    closes,     \* number of rl.close() calls made
    out,        \* console events written by the last turn
    event,      \* the external event the last turn handled
    typed,      \* the lines read so far, while they follow a scripted scenario
    launched,   \* some runScript call has been made
    spawned,    \* some child process has been spawned
    cv          \* checkVersion's pure part, stepped on its own (SpecVer)

vars ==
    <<question, lost, tasks, disk, status, closes, out, event, typed,
      launched, spawned, cv>>

\* ------------------------------------------------------------- text values

\* A line of console input is a sequence of characters.
Space == " "

RECURSIVE TrimLeft(_)
TrimLeft(s) == IF s # <<>> /\ Head(s) = Space THEN TrimLeft(Tail(s)) ELSE s

RECURSIVE TrimRight(_)
TrimRight(s) ==
    IF s # <<>> /\ s[Len(s)] = Space
    THEN TrimRight(SubSeq(s, 1, Len(s) - 1))
    ELSE s

\* String.prototype.trim, applied by getUserInput to every answer.
Trim(s) == TrimRight(TrimLeft(s))

LowerOf(c) == IF c = "Y" THEN "y" ELSE IF c = "N" THEN "n" ELSE c

\* String.prototype.toLowerCase, applied to the answer of the update offer.
ToLowerCase(s) == [i \in 1..Len(s) |-> LowerOf(s[i])]

\* The lines the user may type.
Lines ==
    { <<"1">>, <<"2">>, <<"3">>, <<"4">>, <<"5">>, <<"6">>, <<>>,
      <<" ", "1", " ">>, <<"1", "2">>, <<"y">>, <<"Y">>, <<"n">> }

\* --------------------------------------------------------------- constants

EXCLUDED_FILES == {"private_keys.txt"}

Menus == {"root", "s2h", "h2s"}

\* A table that has lost its LINK case.
SepoliaToHoleskyScriptNoLink(token) ==
    CASE token = <<"1">> -> "SepoliaToHoleskyEth.js"
      [] token = <<"3">> -> "SepoliaToHoleskyEurcTransfer.js"
      [] token = <<"4">> -> "SepoliaToHoleskyUsdcTransfer.js"
      [] OTHER -> "none"

SepoliaToHoleskyScript(token) ==
    CASE token = <<"1">> -> "SepoliaToHoleskyEth.js"
      [] token = <<"2">> -> "SepoliaToHoleskyLinkTransfer.js"
      [] token = <<"3">> -> "SepoliaToHoleskyEurcTransfer.js"
      [] token = <<"4">> -> "SepoliaToHoleskyUsdcTransfer.js"
      [] OTHER -> "none"

\* A table with the EURC and USDC scripts exchanged.
HoleskyToSepoliaScriptSwapped(token) ==
    CASE token = <<"1">> -> "HoleskyToSepoliaETH.js"
      [] token = <<"2">> -> "HoleskyToSepoliaLink.js"
      [] token = <<"3">> -> "HoleskyToSepoliaUsdc.js"
      [] token = <<"4">> -> "HoleskyToSepoliaEurc.js"
      [] OTHER -> "none"

HoleskyToSepoliaScript(token) ==
    CASE token = <<"1">> -> "HoleskyToSepoliaETH.js"
      [] token = <<"2">> -> "HoleskyToSepoliaLink.js"
      [] token = <<"3">> -> "HoleskyToSepoliaEurc.js"
      [] token = <<"4">> -> "HoleskyToSepoliaUsdc.js"
      [] OTHER -> "none"

\* The script a direction submenu launches for a token choice, "none" if the
\* choice launches nothing.
ScriptOf(menu, token) ==
    IF menu = "s2h" THEN SepoliaToHoleskyScript(token)
    ELSE HoleskyToSepoliaScript(token)

\* ------------------------------------------------------------------- state

Ev(k, a) == <<k, a>>

\* An external event: a line of input resolved by getUserInput (trimmed), a
\* timer, the end of a file-system or network request, a child's event.
Event(kind, val, code, line) ==
    [kind |-> kind, val |-> val, code |-> code, line |-> line, versions |-> <<>>]

\* fetchVersionsJson has settled with this list of versions.
Fetched(kind, versions) ==
    [Event("versions", kind, 0, <<>>) EXCEPT !.versions = versions]

LineRead(answer) == Event("line", "", 0, answer)

\* A pending question: where the continuation that asked it resumes.
Q(at, arg) == [at |-> at, arg |-> arg, files |-> <<>>, log |-> <<>>]

QPass(at, files, log) == [at |-> at, arg |-> "", files |-> files, log |-> log]

NoQ == Q("none", "")

\* A pending continuation that is not a question.
T(k, arg) == [k |-> k, arg |-> arg, files |-> <<>>, i |-> 0, log |-> <<>>]

TPass(k, files, i, log) == [k |-> k, arg |-> "", files |-> files, i |-> i, log |-> log]

Add(bag, t) == bag (+) SetToBag({t})

Remove(bag, t) == bag (-) SetToBag({t})

Pending(k) == {t \in BagToSet(tasks) : t.k = k}

\* The reader as a turn finds it (Now), and as the callback of an answered
\* question finds it (Answered: readline clears the callback before calling it).
Now == [question |-> question, lost |-> lost]

Answered == [question |-> NoQ, lost |-> lost]

\* getUserInput -> rl.question: with a question already pending readline does
\* not register the new callback, it only shows the current prompt again; the
\* promise of that getUserInput call is then never resolved.
RlQuestion(q, rl) ==
    IF rl.question.at = "none"
    THEN [question |-> q, lost |-> rl.lost]
    ELSE [question |-> rl.question, lost |-> rl.lost \cup {q.at}]

\* --------------------------------------------------------- scripted inputs

\* Input sequences whose runs are followed from the start of the program.
Scenarios ==
    { << <<"1">>, <<"2">>, <<"5">>, <<"4">> >>,
      << <<"1">>, <<"5">>, <<"4">> >> }

OffScript == << <<"*">> >>

IsPrefix(p, s) == Len(p) <= Len(s) /\ SubSeq(s, 1, Len(p)) = p

\* The record of the answers getUserInput has resolved, kept while it is a
\* prefix of a scenario.
Follow(h, answer) ==
    IF h # OffScript /\ \E s \in Scenarios : IsPrefix(Append(h, answer), s)
    THEN Append(h, answer)
    ELSE OffScript

\* ------------------------------------------------------------ menu screens

\* What a turn leaves: the reader and the console events.
Asks(q, rl, pre) ==
    LET r == RlQuestion(q, rl) IN
    /\ question' = r.question
    /\ lost' = r.lost
    /\ out' = pre \o <<Ev("prompt", r.question.at)>>

NoQuestion(rl, pre) ==
    /\ question' = rl.question
    /\ lost' = rl.lost
    /\ out' = pre

RootScreen == <<Ev("clear", ""), Ev("banner", ""), Ev("menu", "root")>>

SubScreen(menu) == <<Ev("clear", ""), Ev("menu", menu)>>

\* mainMenu() up to its await: banner, root menu, question.  rl is the reader
\* when it is called, pre what this turn has printed before.
MainMenu(rl, pre) == Asks(Q("root", ""), rl, pre \o RootScreen)

\* sepoliaToHoleskyMenu() / holeskyToSepoliaMenu() up to the await.
SubMenu(menu, rl, pre) == Asks(Q(menu, ""), rl, pre \o SubScreen(menu))

\* A timer that always comes back to the root menu.
ShowMenuRoot(menu, rl, pre) == MainMenu(rl, pre)

\* The menu function an invalid choice hands to setTimeout: the same menu.
ShowMenu(menu, rl, pre) ==
    IF menu = "root" THEN MainMenu(rl, pre) ELSE SubMenu(menu, rl, pre)

\* "Press Enter ..." and the question that waits for it.
AskEnter(q, rl, pre) == Asks(q, rl, pre \o <<Ev("log", "pressEnter")>>)

\* The default branch of a menu: the message, then setTimeout(menu, 1500).
InvalidChoice(menu) ==
    /\ NoQuestion(Answered, <<Ev("log", "invalid")>>)
    /\ tasks' = Add(tasks, T("timer", menu))

\* A menu that does not leave the continuation to the child's handlers: it
\* goes on to mainMenu() as soon as runScript has returned.
RunScriptThenMenu(script) ==
    /\ MainMenu(Answered, <<>>)
    /\ tasks' = Add(tasks, T("access", script))
    /\ launched' = TRUE

\* runScript(scriptName) up to await fs.access(scriptPath).
RunScript(script) ==
    /\ NoQuestion(Answered, <<>>)
    /\ tasks' = Add(tasks, T("access", script))
    /\ launched' = TRUE

\* checkVersion() up to await fetchVersionsJson().
CheckVersion ==
    /\ NoQuestion(Answered, <<Ev("log", "checking")>>)
    /\ tasks' = Add(tasks, T("versions", ""))

\* An Exit branch that leaves the reader open.
ExitProcessNoClose ==
    /\ NoQuestion(Answered, <<Ev("log", "goodbye")>>)
    /\ closes' = closes
    /\ status' = "exit0"
    /\ tasks' = EmptyBag

\* The Exit branch: rl.close(); process.exit(0).  Timers and requests end
\* with the process.
ExitProcess ==
    /\ NoQuestion(Answered, <<Ev("log", "goodbye")>>)
    /\ closes' = closes + 1
    /\ status' = "exit0"
    /\ tasks' = EmptyBag

\* ----------------------------------------------------------- menu actions

\* The root menu's question is answered.
RootChoice ==
    /\ status = "running"
    /\ question.at = "root"
    /\ \E line \in Lines :
        LET choice == Trim(line) IN
        /\ typed' = Follow(typed, choice)
        /\ event' = LineRead(choice)
        /\ CASE choice = <<"1">> ->
                    /\ SubMenu("s2h", Answered, <<>>)
                    /\ UNCHANGED <<tasks, status, closes>>
             [] choice = <<"2">> ->
                    /\ SubMenu("h2s", Answered, <<>>)
                    /\ UNCHANGED <<tasks, status, closes>>
             [] choice = <<"3">> ->
                    /\ CheckVersion
                    /\ UNCHANGED <<status, closes>>
             [] choice = <<"4">> ->
                    ExitProcess
             [] OTHER ->
                    /\ InvalidChoice("root")
                    /\ UNCHANGED <<status, closes>>
    /\ UNCHANGED <<disk, launched, spawned, cv>>

\* A direction submenu's question is answered.
TokenChoice ==
    /\ status = "running"
    /\ question.at \in {"s2h", "h2s"}
    /\ \E line \in Lines :
        LET choice == Trim(line)
            script == ScriptOf(question.at, choice)
        IN
        /\ typed' = Follow(typed, choice)
        /\ event' = LineRead(choice)
        /\ IF script # "none"
           THEN RunScript(script)
           ELSE IF choice = <<"5">>
           THEN /\ MainMenu(Answered, <<>>)
                /\ UNCHANGED <<tasks, launched>>
           ELSE /\ InvalidChoice(question.at)
                /\ UNCHANGED launched
    /\ UNCHANGED <<disk, status, closes, spawned, cv>>

AckPrompts ==
    {"ackMissing", "ackChild", "ackUnable", "ackRestart", "ackSkipped",
     "ackLatest", "ackError"}

\* A "Press Enter" question is answered: the caller goes on to mainMenu().
Acknowledge ==
    /\ status = "running"
    /\ question.at \in AckPrompts
    /\ \E line \in Lines :
        /\ typed' = Follow(typed, Trim(line))
        /\ event' = LineRead(Trim(line))
        /\ MainMenu(Answered, <<>>)
    /\ UNCHANGED <<tasks, disk, status, closes, launched, spawned, cv>>

\* The 1500 ms timer of an invalid choice fires: the same menu again.
TimerFire ==
    /\ status = "running"
    /\ \E t \in Pending("timer") :
        /\ event' = Event("timer", t.arg, 0, <<>>)
        /\ tasks' = Remove(tasks, t)
        /\ ShowMenu(t.arg, Now, <<>>)
    /\ UNCHANGED <<disk, status, closes, typed, launched, spawned, cv>>

\* ------------------------------------------------------- process dispatch

AccessOutcomes == {"ok", "missing", "throws"}

\* fs.access settles.  "ok": spawn() returns a child and both handlers are
\* registered.  "missing": fs.access rejects.  "throws": spawn() throws.
\* Either failure lands in runScript's catch block.
\* A launch that shows the menu again without waiting for the child.
SpawnThenMenu(t) ==
    /\ tasks' = Add(Remove(tasks, t), T("child", t.arg))
    /\ spawned' = TRUE
    /\ MainMenu(Now, <<>>)

\* spawn('node', [scriptPath], ...) and the registration of both handlers.
Spawn(t) ==
    /\ tasks' = Add(Remove(tasks, t), T("child", t.arg))
    /\ spawned' = TRUE
    /\ NoQuestion(Now, <<>>)

\* A catch block that reports the failure and launches the script anyway.
NotFoundSpawns(t) ==
    /\ tasks' = Add(Remove(tasks, t), T("child", t.arg))
    /\ spawned' = TRUE
    /\ NoQuestion(Now, <<Ev("log", "notFound")>>)

\* runScript's catch block: the report, the Enter question (then mainMenu()).
NotFound(t) ==
    /\ tasks' = Remove(tasks, t)
    /\ AskEnter(Q("ackMissing", t.arg), Now, <<Ev("log", "notFound")>>)
    /\ UNCHANGED spawned

AccessDone ==
    /\ status = "running"
    /\ \E t \in Pending("access"), r \in AccessOutcomes :
        /\ event' = Event("access", r, 0, <<>>)
        /\ IF r = "ok" THEN Spawn(t) ELSE NotFound(t)
    /\ UNCHANGED <<disk, status, closes, typed, launched, cv>>

ExitCodes == {0, 1}

ErrorReport == <<Ev("log", "errorRunning"), Ev("log", "pressEnter")>>

ExitReport == <<Ev("log", "exitCode"), Ev("log", "pressEnter")>>

\* An 'exit' handler that goes back to the menu only after a failure.
OnExitNoMenu(code, rl, pre) ==
    IF code # 0
    THEN Asks(Q("ackChild", "exit"), rl, pre \o ExitReport)
    ELSE NoQuestion(rl, pre)

\* The child's 'exit' handler.
OnExit(code, rl, pre) ==
    IF code # 0
    THEN Asks(Q("ackChild", "exit"), rl, pre \o ExitReport)
    ELSE MainMenu(rl, pre)

\* A running child exits.
ChildExit ==
    /\ status = "running"
    /\ \E t \in Pending("child"), code \in ExitCodes :
        /\ event' = Event("exit", "", code, <<>>)
        /\ tasks' = Remove(tasks, t)
        /\ OnExit(code, Now, <<>>)
    /\ UNCHANGED <<disk, status, closes, typed, launched, spawned, cv>>

\* The child could not be started: it emits 'error', and its handler asks
\* for Enter.  The launcher neither kills nor messages its children, so this
\* is the only 'error' it sees, and there is no process that could exit
\* later: when Node also emits 'exit' for the failed child (it may or may
\* not), the 'exit' handler runs right after the 'error' handler.
ChildError ==
    /\ status = "running"
    /\ \E t \in Pending("child"), exitToo \in BOOLEAN, code \in ExitCodes :
        LET rl == RlQuestion(Q("ackChild", "error"), Now)
            pre == ErrorReport \o <<Ev("prompt", rl.question.at)>>
        IN
        /\ event' = Event("error", IF exitToo THEN "exitToo" ELSE "", code, <<>>)
        /\ tasks' = Remove(tasks, t)
        /\ IF exitToo
           THEN OnExit(code, rl, pre)
           ELSE NoQuestion(rl, pre)
    /\ UNCHANGED <<disk, status, closes, typed, launched, spawned, cv>>

\* ---------------------------------------------------------- version logic

\* A version string is a sequence of characters: digits and dots.
Digits == <<"0", "1", "2", "3", "4", "5", "6", "7", "8", "9">>

DigitValue(c) == (CHOOSE d \in 1..10 : Digits[d] = c) - 1

\* Number(text) of a string of decimal digits.
RECURSIVE Number(_)
Number(text) ==
    IF text = <<>> THEN 0
    ELSE 10 * Number(SubSeq(text, 1, Len(text) - 1)) + DigitValue(text[Len(text)])

\* String.prototype.split('.').
RECURSIVE Split(_)
Split(text) ==
    IF \A k \in 1..Len(text) : text[k] # "."
    THEN <<text>>
    ELSE LET d == CHOOSE k \in 1..Len(text) :
                      text[k] = "." /\ \A j \in 1..(k - 1) : text[j] # "."
         IN <<SubSeq(text, 1, d - 1)>> \o Split(SubSeq(text, d + 1, Len(text)))

\* version.split('.').map(Number)
VersionParts(text) == [k \in 1..Len(Split(text)) |-> Number(Split(text)[k])]

CURRENT_VERSION == <<"1", ".", "0", ".", "0">>

\* The comparator given to versions.sort: the first of the three components
\* that differ decides, the greater version first.
\* A comparator that puts the smaller version first.
RECURSIVE CompareFromAscending(_, _, _)
CompareFromAscending(aParts, bParts, k) ==
    IF k > 3 THEN 0
    ELSE IF aParts[k] # bParts[k] THEN aParts[k] - bParts[k]
    ELSE CompareFromAscending(aParts, bParts, k + 1)

RECURSIVE CompareFrom(_, _, _)
CompareFrom(aParts, bParts, k) ==
    IF k > 3 THEN 0
    ELSE IF aParts[k] # bParts[k] THEN bParts[k] - aParts[k]
    ELSE CompareFrom(aParts, bParts, k + 1)

CompareVersions(a, b) == CompareFrom(VersionParts(a), VersionParts(b), 1)

\* Array.prototype.sort with that comparator (a stable insertion sort): x is
\* put after the entries that do not have to come after it.
RECURSIVE InsertSorted(_, _)
InsertSorted(x, sorted) ==
    IF sorted = <<>> THEN <<x>>
    ELSE IF CompareVersions(Head(sorted), x) > 0
    THEN <<x>> \o sorted
    ELSE <<Head(sorted)>> \o InsertSorted(x, Tail(sorted))

RECURSIVE SortVersions(_)
SortVersions(versions) ==
    IF versions = <<>> THEN <<>>
    ELSE InsertSorted(versions[Len(versions)],
                      SortVersions(SubSeq(versions, 1, Len(versions) - 1)))

\* The loop that sets isLatest: FALSE as soon as a component of the current
\* version is smaller, TRUE as soon as one is greater or when all are equal.
\* A loop without the break of its else-if branch: a smaller later
\* component of the current version still clears isLatest.
RECURSIVE IsLatestFromNoBreak(_, _, _)
IsLatestFromNoBreak(currentVersionParts, latestVersionParts, k) ==
    IF k > 3 THEN TRUE
    ELSE IF currentVersionParts[k] < latestVersionParts[k] THEN FALSE
    ELSE IsLatestFromNoBreak(currentVersionParts, latestVersionParts, k + 1)

RECURSIVE IsLatestFrom(_, _, _)
IsLatestFrom(currentVersionParts, latestVersionParts, k) ==
    IF k > 3 THEN TRUE
    ELSE IF currentVersionParts[k] < latestVersionParts[k] THEN FALSE
    ELSE IF currentVersionParts[k] > latestVersionParts[k] THEN TRUE
    ELSE IsLatestFrom(currentVersionParts, latestVersionParts, k + 1)

IsLatest(latestVersion) ==
    IsLatestFrom(VersionParts(CURRENT_VERSION), VersionParts(latestVersion), 1)

\* A check that offers whatever the feed lists.
NeedsUpdateAlways(versions) == TRUE

\* The update is offered for a non-empty list of versions: sort, take the
\* first, compare it with the current version.
NeedsUpdate(versions) == ~IsLatest(SortVersions(versions)[1])

\* The text of a component, and of a version triple, as the feed writes it.
NumberText(n) ==
    IF n < 10 THEN <<Digits[n + 1]>>
    ELSE <<Digits[(n \div 10) + 1], Digits[(n % 10) + 1]>>

VersionText(triple) ==
    NumberText(triple[1]) \o <<".">> \o NumberText(triple[2]) \o <<".">>
        \o NumberText(triple[3])

\* The feeds the running launcher is given: those the design documents name.
ExampleFeeds ==
    { <<>>,
      <<VersionText(<<1, 0, 0>>), VersionText(<<0, 9, 0>>)>>,
      <<VersionText(<<1, 2, 0>>)>>,
      <<VersionText(<<0, 9, 0>>), VersionText(<<1, 2, 0>>)>> }

\* ----------------------------------------------------------- update checker

\* How fetchVersionsJson ends.  "ok": status 200 and a list of well-formed
\* entries.  "noChanges", "noVersion": status 200 and a list whose entries
\* lack CHANGES, or VERSION.  "status": another 2xx status.  "failed": the
\* request or the parse throws.  The last two return [].
VersionOutcomes == {"ok", "noChanges", "noVersion", "status", "failed"}

\* A fetch that maps whatever body came, whatever the status.
FetchVersionsJsonAnyStatus(kind, feed) == feed

\* What fetchVersionsJson returns: the mapped body with status 200, [] from
\* its else branch and from its catch block.
FetchVersionsJson(kind, feed) ==
    IF kind \in {"status", "failed"} THEN <<>> ELSE feed

\* fetchVersionsJson settles and checkVersion runs up to its next question.
VersionsDone ==
    /\ status = "running"
    /\ \E t \in Pending("versions"), kind \in VersionOutcomes, feed \in ExampleFeeds :
        LET versions == FetchVersionsJson(kind, feed) IN
        /\ event' = Fetched(kind, versions)
        /\ tasks' = Remove(tasks, t)
        /\ IF versions = <<>>
           THEN AskEnter(Q("ackUnable", ""), Now, <<Ev("log", "unable")>>)
           ELSE IF kind = "noVersion"
           THEN AskEnter(Q("ackError", ""), Now, <<Ev("log", "errorChecking")>>)
           ELSE IF ~NeedsUpdate(versions)
           THEN AskEnter(Q("ackLatest", ""), Now, <<Ev("log", "latest")>>)
           ELSE IF kind = "noChanges"
           THEN AskEnter(Q("ackError", ""), Now,
                         <<Ev("log", "newVersion"), Ev("log", "errorChecking")>>)
           ELSE Asks(Q("offer", ""), Now,
                     <<Ev("log", "newVersion"), Ev("log", "table")>>)
    /\ UNCHANGED <<disk, status, closes, typed, launched, spawned, cv>>

\* An offer that only "n" declines.
ConfirmsUnlessNo(answer) == ToLowerCase(answer) # <<"n">>

\* answer.toLowerCase() === 'y'
Confirms(answer) == ToLowerCase(answer) = <<"y">>

\* The update offer is answered: "y" starts updateFiles, which runs up to
\* await fetchRepoFiles(); anything else skips the update.
UpdateAnswer ==
    /\ status = "running"
    /\ question.at = "offer"
    /\ \E line \in Lines :
        LET answer == Trim(line) IN
        /\ typed' = Follow(typed, answer)
        /\ event' = LineRead(answer)
        /\ IF Confirms(answer)
           THEN /\ tasks' = Add(tasks, T("listing", ""))
                /\ NoQuestion(Answered, <<>>)
           ELSE /\ AskEnter(Q("ackSkipped", ""), Answered, <<Ev("log", "skipped")>>)
                /\ UNCHANGED tasks
    /\ UNCHANGED <<disk, status, closes, launched, spawned, cv>>

\* ---------------------------------------------------------------- file sync

FileNames == {"private_keys.txt", "index.js", "README.md"}

Entries == [name : FileNames, type : {"file", "dir"}]

\* The bodies the repository-contents request may return.
Listings == UNION {[1..n -> Entries] : n \in 0..MaxFiles}

ListingOutcomes == {"ok", "status", "failed"}

IsFile(item) == item.type = "file"

\* response.data.filter(item => item.type === 'file').map(...)
FilesOf(entries) ==
    LET kept == SelectSeq(entries, IsFile) IN [k \in 1..Len(kept) |-> kept[k].name]

\* A test against a misspelt name.
ExcludedMisspelt(name) == name \in {"private_key.txt"}

\* downloadFile's first test.
Excluded(name) == name \in EXCLUDED_FILES

\* A loop that a failed entry ends.
AfterEntryAbort(files, i, failed) == IF failed THEN Len(files) + 1 ELSE i + 1

\* The entry updateFiles' loop takes after entry i, whether or not entry i
\* failed: downloadFile catches and reports its own errors.
AfterEntry(files, i, failed) == i + 1

\* The first entry from i on that downloadFile does not skip.
RECURSIVE SkipTo(_, _)
SkipTo(files, i) ==
    IF i <= Len(files) /\ Excluded(files[i])
    THEN SkipTo(files, AfterEntry(files, i, FALSE))
    ELSE i

SkipLog(files, i, j) == [k \in 1..(j - i) |-> <<files[i + k - 1], "skipped">>]

SkipOut(files, i, j) == [k \in 1..(j - i) |-> Ev("skipped", files[i + k - 1])]

PassEnd == <<Ev("log", "complete"), Ev("log", "restart")>>

\* updateFiles' loop from entry i on, up to the next request it waits for:
\* excluded entries are skipped with a message; then either a download is
\* requested, or the loop is over and checkVersion asks for Enter.
SyncFrom(t, files, i, log, pre) ==
    LET j == SkipTo(files, i)
        log2 == log \o SkipLog(files, i, j)
        pre2 == pre \o SkipOut(files, i, j)
    IN  IF j > Len(files)
        THEN /\ tasks' = Remove(tasks, t)
             /\ AskEnter(QPass("ackRestart", files, log2), Now, pre2 \o PassEnd)
        ELSE /\ tasks' = Add(Remove(tasks, t), TPass("get", files, j, log2))
             /\ NoQuestion(Now, pre2)

\* fetchRepoFiles settles; updateFiles starts its loop, or finds no files.
ListingDone ==
    /\ status = "running"
    /\ \E t \in Pending("listing"), kind \in ListingOutcomes, body \in Listings :
        LET files == IF kind = "ok" THEN FilesOf(body) ELSE <<>> IN
        /\ event' = Event("listing", kind, 0, <<>>)
        /\ IF files = <<>>
           THEN /\ tasks' = Remove(tasks, t)
                /\ AskEnter(QPass("ackRestart", <<>>, <<>>), Now,
                            <<Ev("log", "noFiles"), Ev("log", "restart")>>)
           ELSE SyncFrom(t, files, 1, <<>>, <<Ev("log", "downloading")>>)
    /\ UNCHANGED <<disk, status, closes, typed, launched, spawned, cv>>

\* How the download request of an entry ends: status 200, another 2xx
\* status, or an error thrown by the request.
GetOutcomes == {"200", "status", "failed"}

\* A download whose write is not awaited: the loop goes on to request the
\* next entry while the file is being written.
WriteFileNotAwaited(t) ==
    LET j == SkipTo(t.files, t.i + 1)
        w == Add(Remove(tasks, t), TPass("write", t.files, t.i, t.log))
    IN
    /\ tasks' = IF j <= Len(t.files)
                THEN Add(w, TPass("get", t.files, j, t.log))
                ELSE w
    /\ NoQuestion(Now, <<>>)

\* downloadFile with status 200: await fs.writeFile(...).
WriteFile(t) ==
    /\ tasks' = Add(Remove(tasks, t), TPass("write", t.files, t.i, t.log))
    /\ NoQuestion(Now, <<>>)

GetDone ==
    /\ status = "running"
    /\ \E t \in Pending("get"), r \in GetOutcomes :
        LET name == t.files[t.i] IN
        /\ event' = Event("get", r, 0, <<>>)
        /\ IF r = "200"
           THEN WriteFile(t)
           ELSE SyncFrom(t, t.files, AfterEntry(t.files, t.i, TRUE),
                         Append(t.log, <<name, r>>), <<Ev(r, name)>>)
    /\ UNCHANGED <<disk, status, closes, typed, launched, spawned, cv>>

\* fs.writeFile of a downloaded entry settles.
WriteDone ==
    /\ status = "running"
    /\ \E t \in Pending("write"), ok \in BOOLEAN :
        LET name == t.files[t.i]
            r == IF ok THEN "downloaded" ELSE "failed"
        IN
        /\ event' = Event("write", r, 0, <<>>)
        /\ disk' = IF ok THEN disk \cup {name} ELSE disk
        /\ SyncFrom(t, t.files, AfterEntry(t.files, t.i, ~ok),
                    Append(t.log, <<name, r>>), <<Ev(r, name)>>)
    /\ UNCHANGED <<status, closes, typed, launched, spawned, cv>>

\* ------------------------------------------------------------ the program

CvIdle ==
    [pc |-> "idle", triples |-> <<>>, versions |-> <<>>, sorted |-> <<>>,
     isLatest |-> TRUE]

\* The state once the script has run to mainMenu()'s first question.
InitProgram ==
    /\ question = Q("root", "")
    /\ lost = {}
    /\ tasks = EmptyBag
    /\ disk = {}
    /\ status = "running"
    /\ closes = 0
    /\ out = <<Ev("log", "starting")>> \o RootScreen \o <<Ev("prompt", "root")>>
    /\ event = Event("start", "", 0, <<>>)
    /\ typed = <<>>
    /\ launched = FALSE
    /\ spawned = FALSE

Init == InitProgram /\ cv = CvIdle

Next ==
    \/ RootChoice
    \/ TokenChoice
    \/ Acknowledge
    \/ TimerFire
    \/ AccessDone
    \/ ChildExit
    \/ ChildError
    \/ VersionsDone
    \/ UpdateAnswer
    \/ ListingDone
    \/ GetDone
    \/ WriteDone

Spec == Init /\ [][Next]_vars

\* The launcher in an environment that keeps it going: a line is typed for
\* every question, every timer fires, every file-system and network request
\* settles, every child ends.
Fairness ==
    /\ WF_vars(RootChoice)
    /\ WF_vars(TokenChoice)
    /\ WF_vars(Acknowledge)
    /\ WF_vars(UpdateAnswer)
    /\ WF_vars(TimerFire)
    /\ WF_vars(AccessDone)
    /\ WF_vars(ChildExit \/ ChildError)
    /\ WF_vars(VersionsDone)
    /\ WF_vars(ListingDone)
    /\ WF_vars(GetDone)
    /\ WF_vars(WriteDone)

SpecLive == Spec /\ Fairness

\* ------------------------------------------- checkVersion's pure part alone

Triples == {<<a, b, c>> : a \in 0..MaxPart, b \in 0..MaxPart, c \in 0..MaxPart}

\* Every feed of at most MaxVers version triples, in any order, duplicates
\* included.
TripleLists == UNION {[1..n -> Triples] : n \in 1..MaxVers}

FeedOf(triples) == [k \in 1..Len(triples) |-> VersionText(triples[k])]

\* checkVersion has received the feed written from a list of triples.
InitVer ==
    /\ InitProgram
    /\ cv \in {[pc |-> "fetched", triples |-> l, versions |-> FeedOf(l),
                sorted |-> <<>>, isLatest |-> TRUE] : l \in TripleLists}

\* versions.sort(...)
CvSort ==
    /\ cv.pc = "fetched"
    /\ cv' = [cv EXCEPT !.pc = "sorted", !.sorted = SortVersions(cv.versions)]
    /\ UNCHANGED <<question, lost, tasks, disk, status, closes, out, event,
                   typed, launched, spawned>>

\* The comparison of versions[0] with CURRENT_VERSION and the branch on it.
CvCompare ==
    /\ cv.pc = "sorted"
    /\ LET latest == IsLatest(cv.sorted[1]) IN
        cv' = [cv EXCEPT !.pc = IF latest THEN "latest" ELSE "offer",
                         !.isLatest = latest]
    /\ UNCHANGED <<question, lost, tasks, disk, status, closes, out, event,
                   typed, launched, spawned>>

NextVer == CvSort \/ CvCompare

SpecVer == InitVer /\ [][NextVer]_vars

\* ===================================================================== claims

Range(s) == {s[k] : k \in 1..Len(s)}

\* The menus a turn has rendered, the questions it has asked.
MenusShown(o) == {e[2] : e \in {x \in Range(o) : x[1] = "menu"}}

Prompts(o) == {x \in Range(o) : x[1] = "prompt"}

ChildTasks(bag) == {t \in BagToSet(bag) : t.k = "child"}

ValidOptions(menu) ==
    IF menu = "root" THEN {<<"1">>, <<"2">>, <<"3">>, <<"4">>}
    ELSE {<<"1">>, <<"2">>, <<"3">>, <<"4">>, <<"5">>}

\* -------------------------------------------------------------------- C1

C1_InvalidInputStep ==
    \A m \in Menus :
        (question.at = m /\ event'.kind = "line" /\ event'.line \notin ValidOptions(m)) =>
            /\ status' = "running"
            /\ question' = NoQ
            /\ MenusShown(out') = {}
            /\ tasks' = SetToBag({T("timer", m)})
            /\ spawned' = spawned
            /\ launched' = launched
            /\ disk' = disk

C1_RedisplayStep ==
    \A m \in Menus :
        (T("timer", m) \in BagToSet(tasks)) =>
            /\ event'.kind = "timer"
            /\ question' = Q(m, "")
            /\ MenusShown(out') = {m}
            /\ tasks' = EmptyBag
            /\ status' = "running"
            /\ spawned' = spawned
            /\ launched' = launched
            /\ disk' = disk

\* C1: at every menu node, an input that is not one of the node's options
\* only prints the error and arms the re-display of that same node, and the
\* re-display renders that node and asks its question again; neither step
\* enters another menu, launches or spawns anything, starts the update
\* checker, writes a file or ends the process.
C1_InvalidInputRedisplaysSameMenu ==
    [][C1_InvalidInputStep /\ C1_RedisplayStep]_vars

\* A direction submenu has been rendered again after an invalid choice.
C1_Witness ==
    /\ event.kind = "timer"
    /\ event.val = "h2s"
    /\ question.at = "h2s"
    /\ MenusShown(out) = {"h2s"}

\* -------------------------------------------------------------------- C2

C2_ExitStep ==
    (question.at = "root" /\ event'.kind = "line" /\ event'.line = <<"4">>) =>
        /\ status' = "exit0"
        /\ closes = 0
        /\ closes' = 1
        /\ question' = NoQ
        /\ tasks' = EmptyBag
        /\ MenusShown(out') = {}
        /\ Prompts(out') = {}

\* C2: "4" read at the root menu closes the reader, for the first and only
\* time, and ends the process with status 0; no step is taken once the
\* process has ended, so nothing is rendered, read, spawned or printed.
C2_ExitAtRootIsFinal ==
    /\ [](closes = IF status = "exit0" THEN 1 ELSE 0)
    /\ [][C2_ExitStep /\ status = "running"]_vars

\* The process has ended after a run with a child and a file sync.
C2_Witness ==
    /\ status = "exit0"
    /\ closes = 1
    /\ spawned
    /\ disk # {}

\* -------------------------------------------------------------------- C3

LinkRun == << <<"1">>, <<"2">>, <<"5">>, <<"4">> >>

BackRun == << <<"1">>, <<"5">>, <<"4">> >>

\* C3 as stated: after "1", "2", "5", "4" the submenu was shown, nothing was
\* launched or spawned, "5" led back to the root menu, and the process has
\* ended with status 0.
C3_Original ==
    /\ typed = SubSeq(LinkRun, 1, 1) => question.at = "s2h"
    /\ (typed # <<>> /\ IsPrefix(typed, LinkRun)) => ~launched /\ ~spawned
    /\ typed = SubSeq(LinkRun, 1, 3) => question.at = "root"
    /\ typed = LinkRun => status = "exit0"

\* C3 amended: after "1" the Sepolia->Holesky submenu is shown; "2" there
\* requests the launch of the Sepolia->Holesky LINK script and of no other;
\* once "1", "2", "5", "4" have been read the process has ended with status
\* 0.  The run that launches nothing is "1", "5", "4": submenu, back to the
\* root menu, end with status 0, no launch attempt and no child.
C3_LinkRunLaunchesBackRunDoesNot ==
    /\ typed = SubSeq(LinkRun, 1, 1) => question.at = "s2h"
    /\ typed = SubSeq(LinkRun, 1, 2) =>
          /\ launched
          /\ \A t \in BagToSet(tasks) :
                t.k \in {"access", "child"} /\ t.arg = "SepoliaToHoleskyLinkTransfer.js"
          /\ question.at \in {"none", "ackMissing", "ackChild", "root"}
    /\ typed = LinkRun => status = "exit0" /\ closes = 1 /\ launched
    /\ typed = SubSeq(BackRun, 1, 2) => question.at = "root" /\ ~launched /\ ~spawned
    /\ typed = BackRun => status = "exit0" /\ closes = 1 /\ ~launched /\ ~spawned

\* "1", "2", "5", "4" have been read, a child was spawned on the way, and the
\* process has ended.
C3_Witness ==
    /\ typed = LinkRun
    /\ status = "exit0"
    /\ spawned

\* -------------------------------------------------------------------- C4

DirectionScripts ==
    [s2h |-> <<"SepoliaToHoleskyEth.js", "SepoliaToHoleskyLinkTransfer.js",
               "SepoliaToHoleskyEurcTransfer.js", "SepoliaToHoleskyUsdcTransfer.js">>,
     h2s |-> <<"HoleskyToSepoliaETH.js", "HoleskyToSepoliaLink.js",
               "HoleskyToSepoliaEurc.js", "HoleskyToSepoliaUsdc.js">>]

C4_RootStep ==
    (question.at = "root" /\ event'.kind = "line") =>
        /\ event'.line = <<"1">> => question' = Q("s2h", "") /\ MenusShown(out') = {"s2h"}
        /\ event'.line = <<"2">> => question' = Q("h2s", "") /\ MenusShown(out') = {"h2s"}
        /\ event'.line = <<"3">> <=> tasks' = SetToBag({T("versions", "")})
        /\ event'.line = <<"4">> <=> status' = "exit0"
        /\ launched' = launched

C4_TokenStep ==
    \A m \in {"s2h", "h2s"} :
        (question.at = m /\ event'.kind = "line") =>
            /\ \A k \in 1..4 :
                  event'.line = <<Digits[k + 1]>> =>
                      /\ tasks' = SetToBag({T("access", DirectionScripts[m][k])})
                      /\ launched'
            /\ event'.line = <<"5">> =>
                  /\ question' = Q("root", "")
                  /\ MenusShown(out') = {"root"}
                  /\ tasks' = EmptyBag
                  /\ launched' = launched

\* C4: the root menu sends 1 and 2 to the two direction submenus, 3 to the
\* update checker and 4 to the exit; a direction submenu turns 1..4 into one
\* launch request, for the script of that direction and token, and 5 into
\* the root menu with no launch request.
C4_DispatchTable == [][C4_RootStep /\ C4_TokenStep]_vars

\* The Holesky->Sepolia USDC script has been requested.
C4_Witness ==
    /\ question.at = "none"
    /\ event.kind = "line"
    /\ event.line = <<"4">>
    /\ T("access", "HoleskyToSepoliaUsdc.js") \in BagToSet(tasks)

\* -------------------------------------------------------------------- C5

ChildCount(bag) == BagCardinality([t \in ChildTasks(bag) |-> bag[t]])

C5_SpawnStep ==
    (event'.kind = "access" /\ event'.val = "ok") => ChildCount(tasks) = 0

\* C5: at most one child process is running at any time, and a child is
\* spawned only in a state in which no child is running.
C5_AtMostOneChild == [](ChildCount(tasks) <= 1) /\ [][C5_SpawnStep]_vars

\* A child is running after an earlier child had emitted both 'error' and
\* 'exit'.
C5_Witness ==
    /\ ChildCount(tasks) = 1
    /\ lost # {}
    /\ event.kind = "access"

\* -------------------------------------------------------------------- C6

C6_MissingStep ==
    (event'.kind = "access" /\ event'.val = "missing") =>
        /\ spawned' = spawned
        /\ ChildCount(tasks') = 0
        /\ Ev("log", "notFound") \in Range(out')
        /\ MenusShown(out') = {}
        /\ question'.at = "ackMissing"
        /\ tasks' = EmptyBag
        /\ status' = "running"

C6_AcknowledgeStep ==
    question.at = "ackMissing" =>
        /\ event'.kind = "line"
        /\ question' = Q("root", "")
        /\ MenusShown(out') = {"root"}
        /\ spawned' = spawned
        /\ status' = "running"

\* C6: when fs.access rejects, no child is spawned, the failure is printed
\* and Enter is asked for; the next thing that happens is the answer, and it
\* renders the root menu.  The process goes on running throughout.
C6_MissingScriptReturnsToMenu == [][C6_MissingStep /\ C6_AcknowledgeStep]_vars

\* A missing script has been reported and Enter is awaited, no child having
\* been spawned.
C6_Witness ==
    /\ question.at = "ackMissing"
    /\ event.kind = "access"
    /\ event.val = "missing"
    /\ ~spawned

\* -------------------------------------------------------------------- C7

C7_Step ==
    /\ (event'.kind = "exit" /\ event'.code = 0) =>
          /\ question' = Q("root", "")
          /\ out' = RootScreen \o <<Ev("prompt", "root")>>
    /\ (event'.kind = "exit" /\ event'.code # 0) =>
          /\ Ev("log", "exitCode") \in Range(out')
          /\ MenusShown(out') = {}
          /\ question'.at = "ackChild"
    /\ event'.kind = "error" =>
          /\ Ev("log", "errorRunning") \in Range(out')
          /\ MenusShown(out') = {}
          /\ question'.at = "ackChild"
    /\ question.at = "ackChild" =>
          /\ event'.kind = "line"
          /\ question' = Q("root", "")
          /\ MenusShown(out') = {"root"}

\* C7 as stated: a child that exits with status 0 is followed by the root
\* menu at once; one that exits with another status or emits 'error' is
\* followed by the report and the Enter question, and the menu is rendered
\* only by the answer to it: once per child.
C7_MenuOncePerChild == [][C7_Step]_vars

\* -------------------------------------------------------------------- C8

LexGreater(a, b) ==
    \/ a[1] > b[1]
    \/ a[1] = b[1] /\ a[2] > b[2]
    \/ a[1] = b[1] /\ a[2] = b[2] /\ a[3] > b[3]

Greatest(l) == CHOOSE x \in Range(l) : \A y \in Range(l) : ~LexGreater(y, x)

LocalTriple == <<1, 0, 0>>

\* C8: for every non-empty list of remote triples checkVersion takes the
\* offer branch exactly when the greatest of them is greater than the local
\* triple in (major, minor, patch) order, and the up-to-date branch otherwise.
C8_OfferIffRemoteGreater ==
    cv.pc \in {"offer", "latest"} =>
        (cv.pc = "offer" <=> LexGreater(Greatest(cv.triples), LocalTriple))

\* The update is offered for a feed whose greatest version comes last.
C8_Witness ==
    /\ cv.pc = "offer"
    /\ cv.triples = << <<0, 1, 1>>, <<1, 1, 0>> >>

\* -------------------------------------------------------------------- C9

PassTasks == {t \in BagToSet(tasks) : t.k \in {"get", "write"}}

\* The sync pass under way or just ended: its listing, and what it has done
\* with the entries so far.
PassFiles ==
    IF PassTasks # {} THEN (CHOOSE t \in PassTasks : TRUE).files
    ELSE IF question.at = "ackRestart" THEN question.files
    ELSE <<>>

PassLog ==
    IF PassTasks # {} THEN (CHOOSE t \in PassTasks : TRUE).log
    ELSE IF question.at = "ackRestart" THEN question.log
    ELSE <<>>

NewEntries == (Len(PassLog) + 1)..Len(PassLog')

C9_State ==
    /\ "private_keys.txt" \notin disk
    /\ \A t \in PassTasks : t.files[t.i] # "private_keys.txt"
    /\ \A k \in 1..Len(PassLog) :
          PassLog[k][1] = "private_keys.txt" => PassLog[k][2] = "skipped"
    /\ question.at = "ackRestart" =>
          \A k \in 1..Len(PassFiles) :
              PassFiles[k] = "private_keys.txt" =>
                  k <= Len(PassLog) /\ PassLog[k] = <<"private_keys.txt", "skipped">>

C9_Step ==
    \A k \in NewEntries :
        PassLog'[k][1] = "private_keys.txt" =>
            Ev("skipped", "private_keys.txt") \in Range(out')

\* C9: private_keys.txt is never requested and never written; every listing
\* entry of that name is skipped, with the skip message printed in the turn
\* that skips it, and by the end of the pass each of them has been skipped.
C9_ExcludedFileNeverFetched == []C9_State /\ [][C9_Step]_vars

\* A pass has ended that skipped private_keys.txt and then wrote index.js.
C9_Witness ==
    /\ question.at = "ackRestart"
    /\ question.files = <<"private_keys.txt", "index.js">>
    /\ "index.js" \in disk
    /\ Ev("downloaded", "index.js") \in Range(out)

\* ------------------------------------------------------------------- C10

Failures == {"status", "failed"}

C10_State ==
    /\ Len(PassLog) <= Len(PassFiles)
    /\ \A k \in 1..Len(PassLog) : PassLog[k][1] = PassFiles[k]
    /\ \A t \in PassTasks : t.i = Len(t.log) + 1
    /\ question.at = "ackRestart" => Len(PassLog) = Len(PassFiles)
    /\ \A k \in 1..Len(PassLog) :
          PassLog[k][2] = "downloaded" => PassLog[k][1] \in disk

C10_Step ==
    /\ disk \subseteq disk'
    /\ {e \in Range(out') : e[1] \in Failures}
          = {Ev(PassLog'[k][2], PassLog'[k][1]) :
                k \in {n \in NewEntries : PassLog'[n][2] \in Failures}}

\* C10: a sync pass takes the entries of its listing one by one in listing
\* order, each once, up to the last, whatever happened to the earlier ones; a
\* failure is reported in the turn it happens, for its entry and no other;
\* what has been written stays written.
C10_EveryEntryAttemptedInOrder == []C10_State /\ [][C10_Step]_vars

\* A pass has ended whose first entry failed and whose second was written.
C10_Witness ==
    /\ question.at = "ackRestart"
    /\ question.log = << <<"README.md", "failed">>, <<"index.js", "downloaded">> >>
    /\ "index.js" \in disk

\* ------------------------------------------------------------------- C11

C11_FailedFetchStep ==
    (event'.kind = "versions" /\ event'.val \in {"status", "failed"}) =>
        /\ event'.versions = <<>>
        /\ Ev("log", "unable") \in Range(out')
        /\ Ev("log", "newVersion") \notin Range(out')
        /\ question'.at = "ackUnable"
        /\ tasks' = EmptyBag
        /\ disk' = disk
        /\ status' = "running"

C11_AcknowledgeStep ==
    question.at = "ackUnable" =>
        /\ event'.kind = "line"
        /\ question' = Q("root", "")
        /\ MenusShown(out') = {"root"}
        /\ tasks' = EmptyBag
        /\ disk' = disk
        /\ status' = "running"

\* C11: when the version request throws, ends with a status other than 200,
\* or its body cannot be parsed, fetchVersionsJson returns the empty list;
\* checkVersion then prints that it is unable to check, offers no update,
\* starts no listing and no download, and asks for Enter; the answer renders
\* the root menu.
C11_FailedFetchCannotCheck == [][C11_FailedFetchStep /\ C11_AcknowledgeStep]_vars

\* The version request has failed and Enter is awaited.
C11_Witness ==
    /\ question.at = "ackUnable"
    /\ event.kind = "versions"
    /\ event.val = "failed"

\* ------------------------------------------------------------------- C12

Yes == {<<"y">>, <<"Y">>}

SyncTasks == {t \in BagToSet(tasks) : t.k \in {"listing", "get", "write"}}

RemoteGreater(versions) ==
    \E v \in Range(versions) : LexGreater(VersionParts(v), LocalTriple)

C12_AnswerStep ==
    question.at = "offer" =>
        /\ event'.kind = "line"
        /\ disk' = disk
        /\ status' = "running"
        /\ IF event'.line \in Yes
           THEN /\ tasks' = SetToBag({T("listing", "")})
                /\ question' = NoQ
           ELSE /\ tasks' = EmptyBag
                /\ question'.at = "ackSkipped"
                /\ Ev("log", "skipped") \in Range(out')

C12_PassStep ==
    /\ (Pending("listing")' # {} /\ Pending("listing") = {}) =>
          question.at = "offer" /\ event'.line \in Yes
    /\ SyncTasks # {} =>
          \/ question'.at = "ackRestart" /\ tasks' = EmptyBag
          \/ question' = NoQ /\ BagCardinality(tasks') = 1 /\ PassTasks' # {}

C12_ReturnStep ==
    question.at \in {"ackSkipped", "ackRestart"} =>
        /\ event'.kind = "line"
        /\ question' = Q("root", "")
        /\ MenusShown(out') = {"root"}
        /\ tasks' = EmptyBag
        /\ disk' = disk

C12_LocalVersionStep ==
    (event'.kind = "versions" /\ event'.val = "ok" /\ event'.versions # <<>>) =>
        (question'.at = "offer" <=> RemoteGreater(event'.versions))

\* C12: the answer "y" (or "Y") to the offer starts one sync pass, which
\* runs to its end and asks for Enter; any other answer starts none, requests
\* no listing and writes nothing, and asks for Enter; the answer to either
\* renders the root menu.  Whatever has been written, a later check compares
\* the feed with the same local version, 1.0.0.
C12_OnlyYesStartsOneSync ==
    [][C12_AnswerStep /\ C12_PassStep /\ C12_ReturnStep /\ C12_LocalVersionStep]_vars

\* After a sync pass that wrote a file, a new check offers the update again.
C12_Witness ==
    /\ question.at = "offer"
    /\ disk # {}

\* ------------------------------------------------------------------- C13

AtMenu == question.at \in Menus

C13_ExitStep ==
    status' # "running" =>
        /\ status' = "exit0"
        /\ question.at = "root"
        /\ event'.line = <<"4">>

\* C13: whenever the running launcher is not waiting at a menu (the delay
\* after an invalid choice, a script being checked or run, an update check at
\* any point, a "Press Enter" question), it later is, if lines keep being
\* typed and timers, requests and children end; and the process ends only by
\* the choice of Exit at the root menu.
C13_AlwaysBackToAMenu ==
    /\ (status = "running" /\ ~AtMenu) ~> (AtMenu /\ MenusShown(out) # {})
    /\ [][C13_ExitStep]_vars

\* The launcher is back at the root menu, having by then written a file in
\* a sync pass and handled a child that emitted both 'error' and 'exit'.
C13_Witness ==
    /\ question.at = "root"
    /\ event.kind = "line"
    /\ status = "running"
    /\ disk # {}
    /\ lost # {}

\* ------------------------------------------------------------------- C14

C14_State ==
    ChildCount(tasks) > 0 =>
        /\ question = NoQ
        /\ MenusShown(out) = {}
        /\ Prompts(out) = {}
        /\ BagCardinality(tasks) = 1

C14_Step ==
    /\ (event'.kind = "access" /\ event'.val = "ok") =>
          /\ ChildCount(tasks') = 1
          /\ out' = <<>>
    /\ ChildCount(tasks) > 0 =>
          /\ event'.kind \in {"exit", "error"}
          /\ ChildCount(tasks') = 0
    /\ (MenusShown(out') # {} \/ Prompts(out') # {}) => ChildCount(tasks') = 0

\* C14: runScript returns from spawn without a menu or a question, and from
\* then until the child's 'exit' (or, for a child that could not be started,
\* 'error') event is handled nothing else runs in the launcher: no menu is
\* rendered, no question is asked or pending, no timer or request is pending.
\* Menus and questions come only with the turn that handles the child's end.
C14_NoMenuWhileChildRuns == []C14_State /\ [][C14_Step]_vars

\* A child is running: its script was chosen in a token menu, nothing is
\* asked.
C14_Witness ==
    /\ ChildCount(tasks) = 1
    /\ event.kind = "access"
    /\ event.val = "ok"
    /\ question = NoQ
    /\ lost = {}

\* ------------------------------------------------------------------- C15

\* The triple a version text of the feed was written from.
TripleOf(v) == CHOOSE t \in Triples : VersionText(t) = v

Count(x, l) == Cardinality({k \in 1..Len(l) : l[k] = x})

Sorted == cv.pc \in {"sorted", "latest", "offer"}

\* C15: for every non-empty feed of version triples, in any order and with
\* duplicates, versions.sort leaves the same entries, no entry before one
\* that is greater in (major, minor, patch) order, so that the first entry,
\* taken as the latest, is a maximum of the feed.
C15_SortDescendingFirstIsMax ==
    Sorted =>
        /\ Len(cv.sorted) = Len(cv.versions)
        /\ \A v \in Range(cv.versions) : Count(v, cv.sorted) = Count(v, cv.versions)
        /\ \A i, j \in 1..Len(cv.sorted) :
              i < j => ~LexGreater(TripleOf(cv.sorted[j]), TripleOf(cv.sorted[i]))
        /\ \A t \in Range(cv.triples) : ~LexGreater(t, TripleOf(cv.sorted[1]))
        /\ TripleOf(cv.sorted[1]) \in Range(cv.triples)

\* A feed that came smaller version first has been sorted.
C15_Witness ==
    /\ cv.pc = "sorted"
    /\ cv.triples = << <<0, 1, 1>>, <<1, 0, 0>> >>
    /\ cv.sorted = <<VersionText(<<1, 0, 0>>), VersionText(<<0, 1, 1>>)>>

\* ------------------------------------------------------------------- C16

NetKinds == {"versions", "listing", "get", "write"}

NetTasks(bag) == {t \in BagToSet(bag) : t.k \in NetKinds}

NetCount(bag) == BagCardinality([t \in NetTasks(bag) |-> bag[t]])

\* The operations of the update checker this turn has issued.
Issued == {t \in NetTasks(tasks') : CopiesIn(t, tasks') > CopiesIn(t, tasks)}

C16_Step ==
    \A t \in Issued :
        /\ NetCount(tasks') = 1
        /\ t.k \in {"versions", "listing"} =>
              /\ NetCount(tasks) = 0
              /\ event'.kind = "line"
        /\ t.k = "get" =>
              /\ event'.kind \in {"listing", "get", "write"}
              /\ NetTasks(tasks) = Pending(event'.kind)
              /\ event'.kind = "listing" => t.log \in Seq({<<"private_keys.txt", "skipped">>})
              /\ event'.kind # "listing" => Len(t.log) > 0 /\ t.i > 1
        /\ t.k = "write" =>
              /\ event'.kind = "get"
              /\ event'.val = "200"
              /\ \E g \in Pending("get") : g.i = t.i /\ g.files = t.files

\* C16: the update checker has at most one request in flight: the version
\* request and the listing request are issued with none pending; a file's
\* download is requested in the turn in which the listing, or the previous
\* entry's download or write, has settled; a file is written in the turn in
\* which its own download has settled.
C16_OneRequestAtATime == [](NetCount(tasks) <= 1) /\ [][C16_Step]_vars

\* The second file of a listing is being requested, the first one written.
C16_Witness ==
    /\ \E t \in Pending("get") : t.i = 2 /\ t.log = << <<"index.js", "downloaded">> >>
    /\ event.kind = "write"
    /\ "index.js" \in disk

\* ------------------------------------------------------------------- C17

\* The getUserInput calls whose promise is unresolved: the one readline holds
\* the callback of, and those it dropped.
Reads == (IF question = NoQ THEN 0 ELSE 1) + Cardinality(lost)

\* The continuations that lead to a menu: unresolved reads, timers, checks of
\* a script and children, requests of the update checker.
Continuations == Reads + BagCardinality(tasks)

\* C17 as stated: at most one read issued by the launcher is outstanding and
\* at most one menu continuation is pending, also for a child that emits
\* both 'error' and 'exit'.
C17_OneReadOneContinuation ==
    /\ Reads <= 1
    /\ Continuations <= 1

\* ------------------------------------------------------------------- C18

C18_WriteStep ==
    disk' # disk =>
        /\ event'.kind = "write"
        /\ event'.val = "downloaded"
        /\ \E t \in Pending("write") : disk' = disk \cup {t.files[t.i]}

C18_PassStartStep ==
    (PassTasks' # {} /\ PassTasks = {}) =>
        /\ event'.kind = "listing"
        /\ Pending("listing") # {}

C18_ConfirmStep ==
    (Pending("listing")' # {} /\ Pending("listing") = {}) =>
        /\ question.at = "offer"
        /\ event'.kind = "line"
        /\ event'.line \in Yes

C18_OfferStep ==
    (question'.at = "offer" /\ question.at # "offer") =>
        /\ event'.kind = "versions"
        /\ RemoteGreater(event'.versions)
        /\ \A v \in Range(event'.versions) :
              ~LexGreater(VersionParts(v), VersionParts(SortVersions(event'.versions)[1]))

\* C18: the set of local files changes only by the write of a download of a
\* sync pass; a sync pass starts only from the listing that the answer "y"
\* to the update offer has requested; and the update is offered only by a
\* version check whose feed holds a version greater than the local 1.0.0.
\* Every other turn leaves the local files as they are.
C18_WritesOnlyInConfirmedSync ==
    [][C18_WriteStep /\ C18_PassStartStep /\ C18_ConfirmStep /\ C18_OfferStep]_vars

\* A file has just been written by a sync pass.
C18_Witness ==
    /\ event.kind = "write"
    /\ event.val = "downloaded"
    /\ disk = {"README.md"}

=============================================================================
